---------------------------- MODULE Spec2Model ----------------------------
(***************************************************************************)
(* A model of the Mobinogi MML converter's front end (src/src/App.svelte):  *)
(* the component state, the settings effects, the file drop / file select   *)
(* handlers, the asynchronous convertFile calls and the display sort        *)
(* getSortedVoices.  The conversion engine behind invoke("convert_midi") is *)
(* not part of the front end; its voice partitioner and its limiter and    *)
(* synchronizer are modelled from the design document (sections 4.3, 4.5).  *)
(* The drag highlight (isDragging, which only styles the drop zone) is left *)
(* out.  Spec is the front end with its settings and conversions; the copy  *)
(* buttons of the result view act in CopySpec.                              *)
(*                                                                         *)
(* Text is modelled as sequences of one-character strings wherever the      *)
(* code looks inside it (paths, voice names, stored numbers).  The module   *)
(* is kept in ASCII: the Hangul prefix of the melody voice (three code      *)
(* units, App.svelte line 27) is written <<"m","e","l">>, the chord prefix  *)
(* is written <<"h","w">>, and the three user messages are the ASCII        *)
(* strings MidiOnlyMessage, DefaultErrorMessage and CatchPrefix.            *)
(***************************************************************************)
EXTENDS Integers, Sequences, FiniteSets, TLC

VARIABLES
    isConverting,    \* App.svelte:49
    result,          \* App.svelte:50  None or Some(ConversionResult)
    fileName,        \* App.svelte:51  a character sequence
    conversionMode,  \* App.svelte:52
    charLimit,       \* App.svelte:53  a JS number, or null
    sortBy,          \* App.svelte:54
    errorMessage,    \* App.svelte:55
    copiedIndex,     \* App.svelte:56
    localStorage,    \* the three items of window.localStorage
    dialogOpen,      \* a pending open() promise of handleFileSelect
    calls,           \* the convertFile calls in flight, by slot
    clipboard,       \* the text on the system clipboard, None before any copy
    writes,          \* the pending writeText promises of copyToClipboard
    timers,          \* the pending setTimeout callbacks of copyToClipboard
    notes,           \* partitioner: the input Note list
    queue,           \* partitioner: the sorted Notes not yet placed
    slots,           \* partitioner: the voices (slots) built so far
    limiter          \* limiter and synchronizer: its input, stage and voices

vars == <<isConverting, result, fileName, conversionMode,
          charLimit, sortBy, errorMessage, copiedIndex, localStorage,
          dialogOpen, calls, clipboard, writes, timers, notes, queue, slots,
          limiter>>

copyVars == <<clipboard, writes, timers>>

uiVars == <<isConverting, result, fileName, conversionMode,
            charLimit, sortBy, errorMessage, copiedIndex, localStorage,
            dialogOpen, calls, copyVars>>

partVars == <<notes, queue, slots>>

engineVars == <<partVars, limiter>>

----------------------------------------------------------------------------
(* Bounds of the model.                                                    *)

\* convertFile calls that may be in flight at the same time
MaxInflight == 2
\* voices in a list handed to getSortedVoices (pure-function specification)
MaxVoices == 3
\* Notes in a partitioner input
MaxNotes == 3
\* Notes start and end at times 0..MaxTime
MaxTime == 3
\* copies under way: written but not yet resolved, or marked and waiting for
\* the timeout
MaxCopies == 1
\* Notes in a voice content handed to the limiter
MaxGroups == 2
\* the limiter is given a char_limit in 0..MaxCharLimit
MaxCharLimit == 8

----------------------------------------------------------------------------
(* JavaScript values.                                                      *)

None == <<>>
Some(x) == <<x>>

\* A JS number with one decimal digit: whole + frac/10.
JsNumber(w, f) == [t |-> "number", whole |-> w, frac |-> f]
JsNull == [t |-> "null", whole |-> 0, frac |-> 0]
JsNaN == [t |-> "NaN", whole |-> 0, frac |-> 0]

Max(S) == CHOOSE m \in S : \A n \in S : n <= m
Min(S) == CHOOSE m \in S : \A n \in S : m <= n

DigitChars == <<"0", "1", "2", "3", "4", "5", "6", "7", "8", "9">>

DigitValue(c) == CHOOSE d \in 0..9 : DigitChars[d + 1] = c

IsDigit(c) == \E d \in 0..9 : DigitChars[d + 1] = c

RECURSIVE Digits(_)
Digits(n) == IF n < 10 THEN <<DigitChars[n + 1]>>
             ELSE Digits(n \div 10) \o <<DigitChars[(n % 10) + 1]>>

\* Number.prototype.toString of a non-negative number with at most one decimal
NumberToString(n) ==
    IF n.frac = 0 THEN Digits(n.whole)
    ELSE Digits(n.whole) \o <<".">> \o Digits(n.frac)

RECURSIVE DigitsValue(_)
DigitsValue(s) == IF s = <<>> THEN 0
                  ELSE 10 * DigitsValue(SubSeq(s, 1, Len(s) - 1)) + DigitValue(s[Len(s)])

\* parseInt(s, 10): the longest prefix of decimal digits, NaN when there is none
parseInt(s) ==
    LET stops == {i \in 1..Len(s) : ~IsDigit(s[i])}
        n == IF stops = {} THEN Len(s) ELSE Min(stops) - 1
    IN IF n = 0 THEN JsNaN ELSE JsNumber(DigitsValue(SubSeq(s, 1, n)), 0)

----------------------------------------------------------------------------
(* String helpers on character sequences.                                  *)

\* String.prototype.toLowerCase, on the letters the sample paths use
LowerChar(c) ==
    CASE c = "A" -> "a"
      [] c = "B" -> "b"
      [] c = "D" -> "d"
      [] c = "I" -> "i"
      [] c = "M" -> "m"
      [] OTHER -> c

toLowerCase(s) == [i \in 1..Len(s) |-> LowerChar(s[i])]

endsWith(s, suffix) ==
    /\ Len(s) >= Len(suffix)
    /\ SubSeq(s, Len(s) - Len(suffix) + 1, Len(s)) = suffix

includes(s, part) ==
    \E i \in 1..(Len(s) - Len(part) + 1) : SubSeq(s, i, i + Len(part) - 1) = part

startsWith(s, prefix) ==
    /\ Len(s) >= Len(prefix)
    /\ SubSeq(s, 1, Len(prefix)) = prefix

\* filePath.split(/[\\/]/).pop() || "": the text after the last separator
LastSegment(path) ==
    LET seps == {i \in 1..Len(path) : path[i] \in {"/", "\\"}}
        from == IF seps = {} THEN 1 ELSE Max(seps) + 1
    IN SubSeq(path, from, Len(path))

----------------------------------------------------------------------------
(* getSortedVoices (App.svelte:23-46).                                     *)

MelodyPrefix == <<"m", "e", "l">>

VoiceResult(name, content, note_count) ==
    [name |-> name, content |-> content, char_count |-> Len(content),
     note_count |-> note_count, duration |-> note_count]

\* the predicate of the first filter (line 27); filter itself is SelectSeq:
\* a new array of the elements that pass, in order
IsMelody(v) == v.name = MelodyPrefix \/ startsWith(v.name, MelodyPrefix)

\* A plausible slip: the second filter testing only the exact name.
IsOtherExactNameOnly(v) == v.name # MelodyPrefix

\* the predicate of the second filter (line 28)
IsOther(v) == v.name # MelodyPrefix /\ ~startsWith(v.name, MelodyPrefix)

\* name.match(/\(([^)]+)\)/)?.[1] || "": the text of the leftmost "(...)" that
\* holds at least one character other than ")"
InstrumentOf(name) ==
    LET opens == {i \in 1..Len(name) :
                    /\ name[i] = "("
                    /\ i + 1 <= Len(name)
                    /\ name[i + 1] # ")"
                    /\ \E j \in (i + 2)..Len(name) : name[j] = ")"}
    IN IF opens = {} THEN <<>>
       ELSE LET i == Min(opens)
                j == Min({k \in (i + 2)..Len(name) : name[k] = ")"})
            IN SubSeq(name, i + 1, j - 1)

\* The collation order of the characters instrument names are written in.
Collation == <<" ", "-", "1", "2", "P", "S", "V">>

CharRank(c) == CHOOSE k \in 1..Len(Collation) : Collation[k] = c

\* String.prototype.localeCompare: negative, zero or positive
RECURSIVE localeCompare(_, _)
localeCompare(a, b) ==
    IF a = <<>> /\ b = <<>> THEN 0
    ELSE IF a = <<>> THEN -1
    ELSE IF b = <<>> THEN 1
    ELSE IF CharRank(Head(a)) < CharRank(Head(b)) THEN -1
    ELSE IF CharRank(Head(a)) > CharRank(Head(b)) THEN 1
    ELSE localeCompare(Tail(a), Tail(b))

\* A plausible slip: the operands of the subtraction exchanged.
CompareNotesAscending(a, b) == a.note_count - b.note_count

\* the comparator of line 32
CompareNotes(a, b) == b.note_count - a.note_count

\* A plausible slip: comparing the note counts whatever the instruments.
CompareInstrumentCountsOnly(a, b) == b.note_count - a.note_count

\* the comparator of lines 34-42
CompareInstrument(a, b) ==
    LET instA == InstrumentOf(a.name)
        instB == InstrumentOf(b.name)
    IN IF instA = instB THEN b.note_count - a.note_count
       ELSE localeCompare(instA, instB)

\* the comparator others.sort is given for a sortBy value; none for the values
\* of neither branch (lines 31, 33), which leave the array as it is
Compare(key, a, b) ==
    IF key = "notes" THEN CompareNotes(a, b)
    ELSE IF key = "instrument" THEN CompareInstrument(a, b)
    ELSE 0

\* one insertion of a stable sort: x goes behind the last element that does
\* not compare greater than it
SortInsert(acc, x, key) ==
    LET ok == {j \in 1..Len(acc) : Compare(key, acc[j], x) <= 0}
        p == IF ok = {} THEN 0 ELSE Max(ok)
    IN SubSeq(acc, 1, p) \o <<x>> \o SubSeq(acc, p + 1, Len(acc))

\* Array.prototype.sort (stable), as the array's contents after the call
RECURSIVE sort(_, _)
sort(arr, key) ==
    IF arr = <<>> THEN <<>>
    ELSE SortInsert(sort(SubSeq(arr, 1, Len(arr) - 1), key), arr[Len(arr)], key)

\* A plausible slip: sorting the argument itself instead of a filtered copy.
getSortedVoicesCallInPlace(voices, key) ==
    IF Len(voices) = 0 THEN [ret |-> <<>>, voices |-> voices]
    ELSE LET sorted == sort(voices, key)
         IN [ret |-> SelectSeq(sorted, IsMelody) \o SelectSeq(sorted, IsOther),
             voices |-> sorted]

\* A plausible slip: sorting every voice, the melody included.
getSortedVoicesCallNoSplit(voices, key) ==
    IF Len(voices) = 0 THEN [ret |-> <<>>, voices |-> voices]
    ELSE [ret |-> sort(voices, key), voices |-> voices]

\* One call of getSortedVoices: ret is the array it returns, voices is the
\* argument array as the call leaves it (filter copies, and only the copy
\* `others` is sorted in place).
getSortedVoicesCall(voices, key) ==
    IF Len(voices) = 0 THEN [ret |-> <<>>, voices |-> voices]
    ELSE LET melody == SelectSeq(voices, IsMelody)
             others == SelectSeq(voices, IsOther)
             sorted == IF key \in {"notes", "instrument"} THEN sort(others, key)
                       ELSE others
         IN [ret |-> melody \o sorted, voices |-> voices]

getSortedVoices(voices, key) == getSortedVoicesCall(voices, key).ret

----------------------------------------------------------------------------
(* Inputs of the front end, drawn from small sets.                          *)

\* the user messages of lines 132, 161 and 164
MidiOnlyMessage == "MIDI only (.mid)"
DefaultErrorMessage == "conversion failed"
CatchPrefix == "conversion error: "

\* "a.mid", "d/B.MIDI", "a.mid.x" and "c\mid"
SamplePaths ==
    { <<"a", ".", "m", "i", "d">>,
      <<"d", "/", "B", ".", "M", "I", "D", "I">>,
      <<"a", ".", "m", "i", "d", ".", "x">>,
      <<"c", "\\", "m", "i", "d">> }

\* event.payload.paths of a drop: no path, one path, or two ("a.mid.x" then
\* "a.mid", and the reverse)
DropPathLists ==
    {<<>>} \cup {<<p>> : p \in SamplePaths}
           \cup { <<<<"a", ".", "m", "i", "d", ".", "x">>, <<"a", ".", "m", "i", "d">>>>,
                  <<<<"a", ".", "m", "i", "d">>, <<"a", ".", "m", "i", "d", ".", "x">>>> }

DefaultCharLimit == JsNumber(1200, 0)

\* what the number field can hold after typing: 300, 1200.5, or nothing
TypedLimits == {JsNumber(300, 0), JsNumber(1200, 5), JsNull}

ConversionModes == {"normal", "instrument"}

\* the options of the sortBy select (lines 320-321)
SortOptions == {"notes", "instrument"}

\* "mel (V)", "hw1 (P)", "hw2 (V)"
SampleVoices ==
    << VoiceResult(<<"m", "e", "l", " ", "(", "V", ")">>, "c1", 2),
       VoiceResult(<<"h", "w", "1", " ", "(", "P", ")">>, "c2", 3),
       VoiceResult(<<"h", "w", "2", " ", "(", "V", ")">>, "c3", 5) >>

ConversionResult(success, voices, error) ==
    [success |-> success, voices |-> voices, error |-> error,
     bpm |-> 120, total_notes |-> Len(voices)]

\* what invoke("convert_midi") can resolve to
EngineResults ==
    { ConversionResult(TRUE, SampleVoices, None),
      ConversionResult(TRUE, <<>>, None),
      ConversionResult(FALSE, <<>>, Some("E1")),
      ConversionResult(FALSE, <<>>, None) }

\* error.toString() of what a rejected import, readFile or invoke carries
RejectReasons == {"denied"}

CallSlots == 1..MaxInflight

\* the limiter before it is given anything
NoLimiter == [stage |-> "idle", charLimit |-> 0, full |-> <<>>, cut |-> <<>>, voices |-> <<>>]

----------------------------------------------------------------------------
(* The settings effects (App.svelte:58-76).                                *)

EmptyStorage == [conversionMode |-> None, charLimit |-> None, sortBy |-> None]

\* `if (saved)`: the item exists and is not the empty string (a mode or a sort
\* key is kept as a string, a stored number as its characters)
Truthy(item) == item # None /\ item[1] # ""
TruthyChars(item) == item # None /\ item[1] # <<>>

\* the first effect (lines 58-68), as the three settings it leaves, given the
\* values they had
LoadSettings(ls, mode, limit, order) ==
    [conversionMode |-> IF Truthy(ls.conversionMode) THEN ls.conversionMode[1] ELSE mode,
     charLimit |-> IF TruthyChars(ls.charLimit) THEN parseInt(ls.charLimit[1]) ELSE limit,
     sortBy |-> IF Truthy(ls.sortBy) THEN ls.sortBy[1] ELSE order]

\* the second effect (lines 70-76), as the storage it leaves: charLimit.toString()
\* throws on null, after the first setItem and before the other two
SaveSettings(ls, mode, limit, order) ==
    IF limit.t = "null"
    THEN [ls EXCEPT !.conversionMode = Some(mode)]
    ELSE [conversionMode |-> Some(mode),
          charLimit |-> Some(IF limit.t = "NaN" THEN <<"N", "a", "N">>
                             ELSE NumberToString(limit)),
          sortBy |-> Some(order)]

\* the component as constructed (lines 48-56) and after both startup effects,
\* the load before the save
Mounted(ls) ==
    LET s == LoadSettings(ls, "normal", DefaultCharLimit, "notes")
    IN [settings |-> s,
        storage |-> SaveSettings(ls, s.conversionMode, s.charLimit, s.sortBy)]

----------------------------------------------------------------------------
(* The view (App.svelte:214-357).                                          *)

ShowsSettings == result = None
ShowsErrorBox == result = None /\ errorMessage # ""
ShowsWarning == result # None /\ Len(result[1].voices) = 0
ShowsVoiceList == result # None /\ Len(result[1].voices) > 0

\* the list of the each block (line 326)
DisplayedVoices ==
    IF ShowsVoiceList THEN getSortedVoices(result[1].voices, sortBy) ELSE <<>>

\* result after the each block has called getSortedVoices on result.voices
Rendered(res, key) ==
    IF res = None \/ Len(res[1].voices) = 0 THEN res
    ELSE Some([res[1] EXCEPT !.voices = getSortedVoicesCall(@, key).voices])

\* the options object of lines 151-155
Options == [mode |-> conversionMode, char_limit |-> charLimit, compress_mode |-> FALSE]

----------------------------------------------------------------------------
(* The front end's state machine.                                          *)

NoCalls == [i \in CallSlots |-> None]

\* the first launch: nothing stored yet
Init ==
    /\ isConverting = FALSE
    /\ result = None
    /\ fileName = <<>>
    /\ conversionMode = Mounted(EmptyStorage).settings.conversionMode
    /\ charLimit = Mounted(EmptyStorage).settings.charLimit
    /\ sortBy = Mounted(EmptyStorage).settings.sortBy
    /\ errorMessage = ""
    /\ copiedIndex = -1
    /\ localStorage = Mounted(EmptyStorage).storage
    /\ dialogOpen = FALSE
    /\ calls = NoCalls
    /\ clipboard = None
    /\ writes = <<>>
    /\ timers = 0
    /\ limiter = NoLimiter
    /\ notes = <<>>
    /\ queue = <<>>
    /\ slots = <<>>

\* The window is closed and the app started again: a new component, whose
\* startup effects read and then write what the last session stored.
Restart ==
    /\ isConverting' = FALSE
    /\ result' = None
    /\ fileName' = <<>>
    /\ conversionMode' = Mounted(localStorage).settings.conversionMode
    /\ charLimit' = Mounted(localStorage).settings.charLimit
    /\ sortBy' = Mounted(localStorage).settings.sortBy
    /\ errorMessage' = ""
    /\ copiedIndex' = -1
    /\ localStorage' = Mounted(localStorage).storage
    /\ dialogOpen' = FALSE
    /\ calls' = NoCalls
    /\ writes' = <<>>
    /\ timers' = 0
    /\ UNCHANGED <<clipboard, engineVars>>

\* the mode select (line 221), with the save effect its change triggers
SetConversionMode(m) ==
    /\ ShowsSettings
    /\ m # conversionMode
    /\ conversionMode' = m
    /\ localStorage' = SaveSettings(localStorage, m, charLimit, sortBy)
    /\ UNCHANGED <<isConverting, result, fileName, charLimit, sortBy,
                   errorMessage, copiedIndex, dialogOpen, calls>>
    /\ UNCHANGED <<copyVars, engineVars>>

\* the number field (lines 228-236): bind:value takes whatever was typed; min,
\* max and step only mark the field invalid
SetCharLimit(v) ==
    /\ ShowsSettings
    /\ v # charLimit
    /\ charLimit' = v
    /\ localStorage' = SaveSettings(localStorage, conversionMode, v, sortBy)
    /\ UNCHANGED <<isConverting, result, fileName, conversionMode,
                   sortBy, errorMessage, copiedIndex, dialogOpen, calls>>
    /\ UNCHANGED <<copyVars, engineVars>>

\* the sortBy select (line 319), with the save effect and the re-rendering of
\* the each block its change triggers
SetSortBy(s) ==
    /\ ShowsVoiceList
    /\ s # sortBy
    /\ sortBy' = s
    /\ result' = Rendered(result, s)
    /\ localStorage' = SaveSettings(localStorage, conversionMode, charLimit, s)
    /\ UNCHANGED <<isConverting, fileName, conversionMode, charLimit,
                   errorMessage, copiedIndex, dialogOpen, calls>>
    /\ UNCHANGED <<copyVars, engineVars>>

\* A plausible slip: accepting a path that merely contains the extension.
IsMidiPathIncludes(filePath) ==
    LET lower == toLowerCase(filePath)
    IN \/ includes(lower, <<".", "m", "i", "d">>)
       \/ includes(lower, <<".", "m", "i", "d", "i">>)

\* the negated test of lines 128-131
IsMidiPath(filePath) ==
    LET lower == toLowerCase(filePath)
    IN \/ endsWith(lower, <<".", "m", "i", "d">>)
       \/ endsWith(lower, <<".", "m", "i", "d", "i">>)

FreeSlots == {i \in CallSlots : calls[i] = None}

\* convertFile up to its first await (lines 141-146)
convertFileStart(filePath) ==
    /\ FreeSlots # {}
    /\ isConverting' = TRUE
    /\ errorMessage' = ""
    /\ result' = None
    /\ calls' = [calls EXCEPT ![Min(FreeSlots)] =
                    Some([pc |-> "import", filePath |-> filePath])]

\* handleFileDrop (lines 122-138), on the state it and convertFile touch
handleFileDrop(paths) ==
    IF Len(paths) = 0
    THEN UNCHANGED <<errorMessage, fileName, isConverting, result, calls>>
    ELSE IF ~IsMidiPath(paths[1])
         THEN /\ errorMessage' = MidiOnlyMessage
              /\ UNCHANGED <<fileName, isConverting, result, calls>>
         ELSE /\ fileName' = LastSegment(paths[1])
              /\ convertFileStart(paths[1])

\* the drag-drop listener (lines 82-85): a drop
Drop(paths) ==
    /\ handleFileDrop(paths)
    /\ UNCHANGED <<conversionMode, charLimit, sortBy, copiedIndex, localStorage,
                   dialogOpen>>
    /\ UNCHANGED <<copyVars, engineVars>>

\* handleFileSelect up to its await (lines 102-112): the drop zone is clicked
FileSelectClick ==
    /\ ShowsSettings
    /\ ~dialogOpen
    /\ dialogOpen' = TRUE
    /\ UNCHANGED <<isConverting, result, fileName, conversionMode,
                   charLimit, sortBy, errorMessage, copiedIndex, localStorage, calls>>
    /\ UNCHANGED <<copyVars, engineVars>>

\* handleFileSelect after its await (lines 114-116): a file was chosen
FileSelected(selected) ==
    /\ dialogOpen
    /\ dialogOpen' = FALSE
    /\ handleFileDrop(<<selected>>)
    /\ UNCHANGED <<conversionMode, charLimit, sortBy, copiedIndex, localStorage>>
    /\ UNCHANGED <<copyVars, engineVars>>

\* handleFileSelect after its await: the dialog was cancelled (null) or open()
\* rejected (lines 117-119)
FileSelectCancelled ==
    /\ dialogOpen
    /\ dialogOpen' = FALSE
    /\ UNCHANGED <<isConverting, result, fileName, conversionMode,
                   charLimit, sortBy, errorMessage, copiedIndex, localStorage, calls>>
    /\ UNCHANGED <<copyVars, engineVars>>

AtAwait(i, pc) == calls[i] # None /\ calls[i][1].pc = pc

\* line 146: the dynamic import resolves and fs.readFile is called
ImportResolves(i) ==
    /\ AtAwait(i, "import")
    /\ calls' = [calls EXCEPT ![i] = Some([@[1] EXCEPT !.pc = "readFile"])]
    /\ UNCHANGED <<isConverting, result, fileName, conversionMode,
                   charLimit, sortBy, errorMessage, copiedIndex, localStorage,
                   dialogOpen>>
    /\ UNCHANGED <<copyVars, engineVars>>

\* lines 147-156: readFile resolves and invoke("convert_midi") is called with
\* Options, the options object built from the settings as they stand at this
\* moment; nothing the front end does later depends on what was sent
ReadResolves(i) ==
    /\ AtAwait(i, "readFile")
    /\ calls' = [calls EXCEPT ![i] = Some([@[1] EXCEPT !.pc = "invoke"])]
    /\ UNCHANGED <<isConverting, result, fileName, conversionMode,
                   charLimit, sortBy, errorMessage, copiedIndex, localStorage,
                   dialogOpen>>
    /\ UNCHANGED <<copyVars, engineVars>>

\* A plausible slip: no fallback text for a failure without an error string.
FailureMessageNoDefault(r) == IF r.error = None THEN "" ELSE r.error[1]

\* conversionResult.error || "..." (line 161)
FailureMessage(r) ==
    IF r.error # None /\ r.error[1] # "" THEN r.error[1] ELSE DefaultErrorMessage

\* A plausible slip: taking a result without voices for a failure.
InvokeResolvesEmptyIsFailure(i, r) ==
    /\ AtAwait(i, "invoke")
    /\ IF r.success /\ Len(r.voices) > 0
       THEN /\ result' = Rendered(Some(r), sortBy)
            /\ UNCHANGED errorMessage
       ELSE /\ errorMessage' = FailureMessage(r)
            /\ UNCHANGED result
    /\ isConverting' = FALSE
    /\ calls' = [calls EXCEPT ![i] = None]
    /\ UNCHANGED <<fileName, conversionMode, charLimit, sortBy,
                   copiedIndex, localStorage, dialogOpen>>
    /\ UNCHANGED <<copyVars, engineVars>>

\* lines 158-162 and 165-167: invoke resolves with r
InvokeResolves(i, r) ==
    /\ AtAwait(i, "invoke")
    /\ IF r.success
       THEN /\ result' = Rendered(Some(r), sortBy)
            /\ UNCHANGED errorMessage
       ELSE /\ errorMessage' = FailureMessage(r)
            /\ UNCHANGED result
    /\ isConverting' = FALSE
    /\ calls' = [calls EXCEPT ![i] = None]
    /\ UNCHANGED <<fileName, conversionMode, charLimit, sortBy,
                   copiedIndex, localStorage, dialogOpen>>
    /\ UNCHANGED <<copyVars, engineVars>>

\* lines 163-167: the import, readFile or invoke rejects
AwaitRejects(i, reason) ==
    /\ calls[i] # None
    /\ errorMessage' = CatchPrefix \o reason
    /\ isConverting' = FALSE
    /\ calls' = [calls EXCEPT ![i] = None]
    /\ UNCHANGED <<result, fileName, conversionMode, charLimit, sortBy,
                   copiedIndex, localStorage, dialogOpen>>
    /\ UNCHANGED <<copyVars, engineVars>>

\* A plausible slip: reset leaving the copied mark to its timeout.
resetKeepsCopiedMark ==
    /\ result # None
    /\ result' = None
    /\ fileName' = <<>>
    /\ errorMessage' = ""
    /\ UNCHANGED <<isConverting, conversionMode, charLimit, sortBy, copiedIndex,
                   localStorage, dialogOpen, calls>>
    /\ UNCHANGED <<copyVars, engineVars>>

\* reset (lines 179-184), the button of the result view (line 306)
reset ==
    /\ result # None
    /\ result' = None
    /\ fileName' = <<>>
    /\ errorMessage' = ""
    /\ copiedIndex' = -1
    /\ UNCHANGED <<isConverting, conversionMode, charLimit, sortBy,
                   localStorage, dialogOpen, calls>>
    /\ UNCHANGED <<copyVars, engineVars>>

\* copyToClipboard up to the promise (lines 170-171), from the button of the
\* voice at position idx of the displayed list (line 338): writeText is called
\* with that voice's content
copyToClipboard(idx) ==
    /\ ShowsVoiceList
    /\ idx < Len(DisplayedVoices)
    /\ Len(writes) + timers < MaxCopies
    /\ writes' = Append(writes, [content |-> DisplayedVoices[idx + 1].content,
                                 index |-> idx])
    /\ UNCHANGED <<isConverting, result, fileName, conversionMode, charLimit,
                   sortBy, errorMessage, copiedIndex, localStorage, dialogOpen,
                   calls, clipboard, timers>>
    /\ UNCHANGED engineVars

\* lines 171-176: the oldest pending writeText has put its text on the
\* clipboard and resolves; the mark is set and the timeout started
WriteTextResolves ==
    /\ writes # <<>>
    /\ clipboard' = Some(Head(writes).content)
    /\ copiedIndex' = Head(writes).index
    /\ timers' = timers + 1
    /\ writes' = Tail(writes)
    /\ UNCHANGED <<isConverting, result, fileName, conversionMode, charLimit,
                   sortBy, errorMessage, localStorage, dialogOpen, calls>>
    /\ UNCHANGED engineVars

\* writeText rejects (the document lost focus, or the permission was denied):
\* there is no rejection handler, nothing changes
WriteTextRejects ==
    /\ writes # <<>>
    /\ writes' = Tail(writes)
    /\ UNCHANGED <<isConverting, result, fileName, conversionMode, charLimit,
                   sortBy, errorMessage, copiedIndex, localStorage, dialogOpen,
                   calls, clipboard, timers>>
    /\ UNCHANGED engineVars

\* lines 173-175: a timeout fires, two seconds after its mark was set
CopiedTimeout ==
    /\ timers > 0
    /\ timers' = timers - 1
    /\ copiedIndex' = -1
    /\ UNCHANGED <<isConverting, result, fileName, conversionMode, charLimit,
                   sortBy, errorMessage, localStorage, dialogOpen, calls,
                   clipboard, writes>>
    /\ UNCHANGED engineVars

\* a convertFile call takes its next step: a promise it awaits settles
CallSettles(i) ==
    \/ ImportResolves(i)
    \/ ReadResolves(i)
    \/ \E r \in EngineResults : InvokeResolves(i, r)
    \/ \E reason \in RejectReasons : AwaitRejects(i, reason)

\* a convertFile call returns
CallFinishes(i) ==
    \/ \E r \in EngineResults : InvokeResolves(i, r)
    \/ \E reason \in RejectReasons : AwaitRejects(i, reason)

\* what happens around conversions: files arrive, calls proceed, the result
\* view is left
ConvertNext ==
    \/ \E paths \in DropPathLists : Drop(paths)
    \/ FileSelectClick
    \/ \E selected \in SamplePaths : FileSelected(selected)
    \/ FileSelectCancelled
    \/ \E i \in CallSlots : ImportResolves(i)
    \/ \E i \in CallSlots : ReadResolves(i)
    \/ \E i \in CallSlots, r \in EngineResults : InvokeResolves(i, r)
    \/ \E i \in CallSlots, reason \in RejectReasons : AwaitRejects(i, reason)
    \/ reset

Next ==
    \/ Restart
    \/ \E m \in ConversionModes : SetConversionMode(m)
    \/ \E v \in TypedLimits \cup {DefaultCharLimit} : SetCharLimit(v)
    \/ \E s \in SortOptions : SetSortBy(s)
    \/ ConvertNext

Spec == Init /\ [][Next]_vars

\* One session's conversions under the settings as loaded: the promises a
\* convertFile call awaits settle, and the event loop then runs the call's
\* continuation. The settings handlers are left out: they leave isConverting,
\* errorMessage and the calls in flight as they are and result as the engine
\* returned it (C5), so they neither enable nor block a step of a call. A
\* restart, which ends the session and its calls, is left out as well.
FairSpec ==
    Init /\ [][ConvertNext]_vars /\ \A i \in CallSlots : WF_vars(CallSettles(i))

\* One session of converting and copying, under the settings as loaded: a.mid
\* is dropped (again and again), calls proceed, and in the result view voices are copied, the
\* sort order is changed and the view is left.
CopyNext ==
    \/ Drop(<<<<"a", ".", "m", "i", "d">>>>)
    \/ \E i \in CallSlots : ImportResolves(i)
    \/ \E i \in CallSlots : ReadResolves(i)
    \/ \E i \in CallSlots, r \in EngineResults : InvokeResolves(i, r)
    \/ \E i \in CallSlots, reason \in RejectReasons : AwaitRejects(i, reason)
    \/ reset
    \/ \E s \in SortOptions : SetSortBy(s)
    \/ \E idx \in 0..(Len(SampleVoices) - 1) : copyToClipboard(idx)
    \/ WriteTextResolves
    \/ WriteTextRejects
    \/ CopiedTimeout

CopySpec == Init /\ [][CopyNext]_vars

----------------------------------------------------------------------------
(* Claims about the front end, checked under Spec and FairSpec.            *)

ResultIsSuccess == result # None /\ result[1].success

\* C1: when the engine call of a convertFile call resolves to success = false
\* with a non-empty error string e, then as that call completes errorMessage
\* is exactly e and result is null.
C1_FailureLeavesErrorAndNoResult ==
    [][\A i \in CallSlots, r \in EngineResults :
          (~r.success /\ r.error # None /\ r.error[1] # "" /\ InvokeResolves(i, r))
          => (errorMessage' = r.error[1] /\ result' = None)]_vars

\* C2 as stated: when the engine resolves to success = true with no voices,
\* result is set to that ConversionResult, errorMessage is empty, and the view
\* shows the "no converted notes" warning and neither the voice list nor the
\* error box.
C2_EmptyResultLeavesNoError ==
    [][\A i \in CallSlots, r \in EngineResults :
          (r.success /\ r.voices = <<>> /\ InvokeResolves(i, r))
          => /\ result' = Some(r)
             /\ errorMessage' = ""
             /\ ShowsWarning'
             /\ ~ShowsVoiceList'
             /\ ~ShowsErrorBox']_vars

\* C2 as amended: when the engine resolves to success = true with no voices,
\* result is set to that ConversionResult, the returning call leaves
\* errorMessage as it finds it, and the view shows the "no converted notes"
\* warning and neither the voice list nor the error box.
C2_EmptyResultIsNotAnError ==
    [][\A i \in CallSlots, r \in EngineResults :
          (r.success /\ r.voices = <<>> /\ InvokeResolves(i, r))
          => /\ result' = Some(r)
             /\ errorMessage' = errorMessage
             /\ ShowsWarning'
             /\ ~ShowsVoiceList'
             /\ ~ShowsErrorBox']_vars

\* C2's case: an empty result is on display
C2_Witness ==
    /\ ShowsWarning
    /\ result[1].success
    /\ ~isConverting
    /\ fileName # <<>>

\* C3: closing and reopening the app leaves conversionMode, charLimit and
\* sortBy, after the startup effects, as they were just before closing.
C3_SettingsSurviveRestart ==
    [][Restart => /\ conversionMode' = conversionMode
                  /\ charLimit' = charLimit
                  /\ sortBy' = sortBy]_vars

\* the claim's own reading of "ends in .mid or .midi, compared case-insensitively"
EndsInMidiExtension(path) ==
    \E k \in {4, 5} :
        /\ Len(path) >= k
        /\ toLowerCase(SubSeq(path, Len(path) - k + 1, Len(path)))
              \in {<<".", "m", "i", "d">>, <<".", "m", "i", "d", "i">>}

\* the drops of the sample whose first path does not end in .mid or .midi
RefusedDrops ==
    {paths \in DropPathLists : Len(paths) > 0 /\ ~EndsInMidiExtension(paths[1])}

\* C4: a convertFile call is started only for a path that ends in .mid or
\* .midi (case-insensitively); handleFileDrop on any other first path sets
\* errorMessage to the MIDI-only message, starts and advances no call, and
\* leaves result, fileName and isConverting unchanged.
C4_OnlyMidiPathsAreConverted ==
    [][/\ \A i \in CallSlots :
             (calls[i] = None /\ calls'[i] # None)
             => EndsInMidiExtension(calls'[i][1].filePath)
       /\ \A paths \in RefusedDrops :
             handleFileDrop(paths)
             => /\ errorMessage' = MidiOnlyMessage
                /\ UNCHANGED <<result, fileName, isConverting, calls>>]_vars

\* C4's case: a drop was refused while a conversion of an accepted file runs
C4_Witness ==
    /\ errorMessage = MidiOnlyMessage
    /\ isConverting
    /\ fileName # <<>>
    /\ \E i \in CallSlots : calls[i] # None

\* the successful results of the sample
SuccessfulResults == {r \in EngineResults : r.success}

\* C5: rendering the sorted list leaves result.voices as the engine returned
\* it, and a change of sortBy changes neither result nor the options sent to
\* the engine nor any call in flight.
C5_SortIsReadOnly ==
    [][/\ \A i \in CallSlots, r \in SuccessfulResults :
             InvokeResolves(i, r) => result' = Some(r)
       /\ \A s \in SortOptions :
             SetSortBy(s) => /\ result' = result
                             /\ Options' = Options
                             /\ calls' = calls]_vars

\* C5's case: sortBy was changed to "instrument" on a list that the default
\* sort shows in another order than the engine's, with a conversion in flight
C5_Witness ==
    /\ ShowsVoiceList
    /\ sortBy = "instrument"
    /\ getSortedVoices(result[1].voices, "notes") # result[1].voices
    /\ \E i \in CallSlots : calls[i] # None

\* C7: every invoke("convert_midi") is given a char_limit that is an integer
\* within 500..5000.
C7_CharLimitInRange ==
    [][(\E i \in CallSlots : ReadResolves(i))
       => /\ Options.char_limit.t = "number"
          /\ Options.char_limit.frac = 0
          /\ Options.char_limit.whole \in 500..5000]_vars

\* C8: every convertFile call in flight eventually returns (its promises
\* settling), and as it returns isConverting is false and either result holds
\* a successful ConversionResult or errorMessage is not empty.
C8_ConvertFileAlwaysSettles ==
    /\ \A i \in CallSlots : (calls[i] # None) ~> (calls[i] = None)
    /\ [][\A i \in CallSlots :
             CallFinishes(i)
             => /\ ~isConverting'
                /\ (ResultIsSuccess' \/ errorMessage' # "")]_vars

\* C8's case: a call has returned on a failure that carried no error string
C8_Witness ==
    /\ errorMessage = DefaultErrorMessage
    /\ ~isConverting
    /\ calls = NoCalls
    /\ fileName # <<>>

\* C16: isConverting is true whenever a convertFile call has started and not
\* yet returned.
C16_ConvertingWhileInFlight ==
    (\E i \in CallSlots : calls[i] # None) => isConverting

\* C17: a result is put on display only under the name of the file it is the
\* conversion of: when a call's invoke resolves to a success, fileName is the
\* name of that call's file.
C17_ResultBelongsToFileName ==
    [][\A i \in CallSlots, r \in SuccessfulResults :
          InvokeResolves(i, r) => fileName' = LastSegment(calls[i][1].filePath)]_vars

\* C18: reset sets result to null, fileName and errorMessage to the empty
\* string and copiedIndex to -1, and leaves conversionMode, charLimit, sortBy
\* and the stored settings as they are.
C18_ResetClearsTheViewOnly ==
    [][reset => /\ result' = None
                /\ fileName' = <<>>
                /\ errorMessage' = ""
                /\ copiedIndex' = -1
                /\ UNCHANGED <<conversionMode, charLimit, sortBy, localStorage>>]_vars

\* C18's case: the result view was left with a copied mark standing (its
\* timeout is still pending) and the sort order changed to "instrument"
C18_Witness ==
    /\ result = None
    /\ fileName = <<>>
    /\ errorMessage = ""
    /\ copiedIndex = -1
    /\ timers > 0
    /\ clipboard # None
    /\ sortBy = "instrument"
    /\ localStorage.sortBy = Some("instrument")

\* C19: whenever a voice of the displayed list carries the copied mark, its
\* content is the text most recently written to the clipboard.
C19_CopiedMarkIsOnCopiedVoice ==
    (ShowsVoiceList /\ copiedIndex # -1 /\ copiedIndex < Len(DisplayedVoices))
    => clipboard = Some(DisplayedVoices[copiedIndex + 1].content)

----------------------------------------------------------------------------
(* getSortedVoices on every bounded voice list: a conversion is waiting for *)
(* the engine, which returns any of the bounded lists; the user can then    *)
(* change the sort order or go back.                                        *)

\* "mel", "mel (V)", "hw1 (P)", "hw2 (V)", "hw3 (P)" and "hw4"
VoicePool ==
    { VoiceResult(<<"m", "e", "l">>, "m1", 4),
      VoiceResult(<<"m", "e", "l", " ", "(", "V", ")">>, "m2", 1),
      VoiceResult(<<"h", "w", "1", " ", "(", "P", ")">>, "h1", 2),
      VoiceResult(<<"h", "w", "2", " ", "(", "V", ")">>, "h2", 3),
      VoiceResult(<<"h", "w", "3", " ", "(", "P", ")">>, "h3", 5),
      VoiceResult(<<"h", "w", "4">>, "h4", 3) }

BoundedVoiceLists == UNION {[1..n -> VoicePool] : n \in 0..MaxVoices}

\* the values sortBy can hold: the two options of the select, and a value
\* left in storage that is neither
SortKeys == SortOptions \cup {"name"}

\* what the engine can resolve to, over every bounded voice list
BoundedEngineResults == {ConversionResult(TRUE, vs, None) : vs \in BoundedVoiceLists}

SortInit ==
    /\ isConverting = TRUE
    /\ result = None
    /\ fileName = <<"a", ".", "m", "i", "d">>
    /\ conversionMode = "normal"
    /\ charLimit = DefaultCharLimit
    /\ sortBy \in SortKeys
    /\ errorMessage = ""
    /\ copiedIndex = -1
    /\ localStorage = SaveSettings(EmptyStorage, conversionMode, charLimit, sortBy)
    /\ dialogOpen = FALSE
    /\ calls = [NoCalls EXCEPT ![1] =
                    Some([pc |-> "invoke", filePath |-> <<"a", ".", "m", "i", "d">>])]
    /\ clipboard = None
    /\ writes = <<>>
    /\ timers = 0
    /\ limiter = NoLimiter
    /\ notes = <<>>
    /\ queue = <<>>
    /\ slots = <<>>

SortNext ==
    \/ \E r \in BoundedEngineResults : InvokeResolves(1, r)
    \/ \E s \in SortOptions : SetSortBy(s)
    \/ reset

SortSpec == SortInit /\ [][SortNext]_vars

\* the claims' own reading of "a voice whose name is or starts with" the
\* melody prefix
NameIsMelody(v) ==
    Len(v.name) >= Len(MelodyPrefix)
    /\ \A k \in 1..Len(MelodyPrefix) : v.name[k] = MelodyPrefix[k]

\* C6: in the displayed list every melody voice precedes every other voice,
\* and the melody voices keep their order from the engine's list.
C6_MelodyFirst ==
    ShowsVoiceList =>
        LET d == DisplayedVoices
        IN /\ \A i, j \in 1..Len(d) :
                 (i < j /\ NameIsMelody(d[j])) => NameIsMelody(d[i])
           /\ SelectSeq(d, NameIsMelody) = SelectSeq(result[1].voices, NameIsMelody)

\* C6's case: under "notes" a melody voice is shown ahead of a voice with more
\* notes that came before it in the engine's list
C6_Witness ==
    /\ ShowsVoiceList
    /\ sortBy = "notes"
    /\ LET vs == result[1].voices
       IN \E i, j \in 1..Len(vs) :
             /\ i < j
             /\ ~NameIsMelody(vs[i])
             /\ NameIsMelody(vs[j])
             /\ vs[i].note_count > vs[j].note_count
             /\ DisplayedVoices[1] = vs[j]

\* C9 as stated: with sortBy = "instrument", the voices of the displayed list
\* that carry the same parenthesised instrument name are contiguous.
C9_InstrumentGroupsContiguous ==
    (ShowsVoiceList /\ sortBy = "instrument") =>
        LET d == DisplayedVoices
        IN \A i, k, j \in 1..Len(d) :
              (i < k /\ k < j /\ InstrumentOf(d[i].name) # <<>>
                 /\ InstrumentOf(d[i].name) = InstrumentOf(d[j].name))
              => InstrumentOf(d[k].name) = InstrumentOf(d[i].name)

\* C9 as amended: with sortBy = "instrument", the voices other than the melody
\* voices that carry the same parenthesised instrument name are contiguous in
\* the displayed list (the melody voices stand first whatever their instrument).
C9_OtherVoicesGroupedByInstrument ==
    (ShowsVoiceList /\ sortBy = "instrument") =>
        LET d == DisplayedVoices
        IN \A i, k, j \in 1..Len(d) :
              (i < k /\ k < j /\ ~NameIsMelody(d[i]) /\ ~NameIsMelody(d[j])
                 /\ InstrumentOf(d[i].name) # <<>>
                 /\ InstrumentOf(d[i].name) = InstrumentOf(d[j].name))
              => InstrumentOf(d[k].name) = InstrumentOf(d[i].name)

\* C9's case: two voices of one instrument that the engine's list separates by
\* a voice of another instrument are shown under "instrument"
C9_Witness ==
    /\ ShowsVoiceList
    /\ sortBy = "instrument"
    /\ LET vs == result[1].voices
       IN \E i, k, j \in 1..Len(vs) :
             /\ i < k /\ k < j
             /\ ~NameIsMelody(vs[i]) /\ ~NameIsMelody(vs[k]) /\ ~NameIsMelody(vs[j])
             /\ InstrumentOf(vs[i].name) # <<>>
             /\ InstrumentOf(vs[i].name) = InstrumentOf(vs[j].name)
             /\ InstrumentOf(vs[k].name) # InstrumentOf(vs[i].name)

\* C14: in the displayed list the voices other than the melody voices stand,
\* under "notes", in non-increasing note_count order and, under "instrument",
\* in ascending order of the parenthesised instrument name (none counts as
\* the empty name), those of one instrument in non-increasing note_count order.
C14_OthersAreSorted ==
    ShowsVoiceList =>
        LET o == SelectSeq(DisplayedVoices, LAMBDA v : ~NameIsMelody(v))
        IN \A i, j \in 1..Len(o) :
              i < j =>
                 /\ sortBy = "notes" => o[i].note_count >= o[j].note_count
                 /\ sortBy = "instrument" =>
                       LET instA == InstrumentOf(o[i].name)
                           instB == InstrumentOf(o[j].name)
                       IN IF instA = instB THEN o[i].note_count >= o[j].note_count
                          ELSE localeCompare(instA, instB) < 0

\* C14's case: under "instrument", the engine's list has a voice of a later
\* instrument ahead of one of an earlier instrument, and two voices of one
\* instrument with the smaller note count first
C14_Witness ==
    /\ ShowsVoiceList
    /\ sortBy = "instrument"
    /\ LET vs == result[1].voices
       IN /\ \E i, j \in 1..Len(vs) :
                /\ i < j
                /\ ~NameIsMelody(vs[i]) /\ ~NameIsMelody(vs[j])
                /\ localeCompare(InstrumentOf(vs[i].name), InstrumentOf(vs[j].name)) > 0
          /\ \E i, j \in 1..Len(vs) :
                /\ i < j
                /\ ~NameIsMelody(vs[i]) /\ ~NameIsMelody(vs[j])
                /\ InstrumentOf(vs[i].name) = InstrumentOf(vs[j].name)
                /\ vs[i].note_count < vs[j].note_count

\* how often voice v stands in the list vs
Occurrences(vs, v) == Cardinality({k \in 1..Len(vs) : vs[k] = v})

\* C15: for every sortBy value, the list getSortedVoices returns holds every
\* voice of result.voices as often as result.voices holds it, and no other.
C15_SortedIsPermutation ==
    result # None =>
        LET vs == result[1].voices
            d == getSortedVoices(vs, sortBy)
        IN /\ Len(d) = Len(vs)
           /\ \A v \in VoicePool : Occurrences(d, v) = Occurrences(vs, v)

\* C15's case: under a sortBy value of neither branch, a list of three voices
\* with a melody voice behind another voice, one voice in it twice
C15_Witness ==
    /\ ShowsVoiceList
    /\ sortBy = "name"
    /\ LET vs == result[1].voices
       IN /\ Len(vs) = 3
          /\ ~NameIsMelody(vs[1])
          /\ NameIsMelody(vs[3])
          /\ \E v \in VoicePool : Occurrences(vs, v) = 2
          /\ getSortedVoices(vs, sortBy) # vs

----------------------------------------------------------------------------
(* The engine's Voice Partitioner in normal mode, as the design document    *)
(* describes it (section 4.3): the Notes are sorted by start time, then by  *)
(* descending pitch, and placed one at a time into the earliest-opened slot *)
(* whose last Note has ended at or before the Note's start; a new slot is   *)
(* opened when there is none.                                               *)

Pitches == {60, 64}

\* a Note: start < end; id is its place in the input list
NoteShapes ==
    {n \in [pitch : Pitches, start : 0..MaxTime, end : 0..MaxTime] : n.start < n.end}

WithIds(shapes) ==
    [k \in 1..Len(shapes) |->
        [id |-> k, pitch |-> shapes[k].pitch, start |-> shapes[k].start,
         end |-> shapes[k].end]]

NoteLists == {WithIds(shapes) : shapes \in UNION {[1..n -> NoteShapes] : n \in 0..MaxNotes}}

\* "two Notes overlap iff their [start,end) intervals intersect" (section 3)
Overlap(a, b) == a.start < b.end /\ b.start < a.end

\* the sort order: by start time, then by descending pitch
NoteBefore(a, b) == a.start < b.start \/ (a.start = b.start /\ a.pitch > b.pitch)

NoteInsert(acc, x) ==
    LET ok == {j \in 1..Len(acc) : ~NoteBefore(x, acc[j])}
        p == IF ok = {} THEN 0 ELSE Max(ok)
    IN SubSeq(acc, 1, p) \o <<x>> \o SubSeq(acc, p + 1, Len(acc))

RECURSIVE SortNotes(_)
SortNotes(ns) ==
    IF ns = <<>> THEN <<>>
    ELSE NoteInsert(SortNotes(SubSeq(ns, 1, Len(ns) - 1)), ns[Len(ns)])

\* A plausible slip: asking for a gap between a slot's tail and the Note.
SlotIsFreeAfterGap(slot, n) == slot[Len(slot)].end < n.start

\* A plausible slip: taking a slot for free once its last Note has started.
SlotIsFreeSinceStart(slot, n) == slot[Len(slot)].start <= n.start

\* a slot is free for Note n when its tail has ended at or before n's start
SlotIsFree(slot, n) == slot[Len(slot)].end <= n.start

\* the slots after Note n is placed
Place(ss, n) ==
    LET free == {k \in 1..Len(ss) : SlotIsFree(ss[k], n)}
    IN IF free = {} THEN Append(ss, <<n>>)
       ELSE [ss EXCEPT ![Min(free)] = Append(@, n)]

PartitionInit ==
    /\ isConverting = FALSE
    /\ result = None
    /\ fileName = <<>>
    /\ conversionMode = "normal"
    /\ charLimit = DefaultCharLimit
    /\ sortBy = "notes"
    /\ errorMessage = ""
    /\ copiedIndex = -1
    /\ localStorage = EmptyStorage
    /\ dialogOpen = FALSE
    /\ calls = NoCalls
    /\ clipboard = None
    /\ writes = <<>>
    /\ timers = 0
    /\ limiter = NoLimiter
    /\ notes \in NoteLists
    /\ queue = SortNotes(notes)
    /\ slots = <<>>

\* the next Note of the sorted list is placed
PlaceNote ==
    /\ queue # <<>>
    /\ slots' = Place(slots, Head(queue))
    /\ queue' = Tail(queue)
    /\ UNCHANGED notes
    /\ UNCHANGED <<uiVars, limiter>>

PartitionNext == PlaceNote

PartitionSpec == PartitionInit /\ [][PartitionNext]_vars

\* the ids of the Notes in the slots, with their places
Placements == UNION {{<<k, j>> : j \in 1..Len(slots[k])} : k \in 1..Len(slots)}

\* C10: every input Note is in exactly one voice (once all are placed; before,
\* it is either in exactly one voice or still waiting), and no two Notes of a
\* voice overlap.
C10_PartitionIsExactAndMonophonic ==
    /\ \A n \in 1..Len(notes) :
          LET places == {pl \in Placements : slots[pl[1]][pl[2]] = notes[n]}
              waiting == {q \in 1..Len(queue) : queue[q] = notes[n]}
          IN /\ Cardinality(places) + Cardinality(waiting) = 1
             /\ queue = <<>> => Cardinality(places) = 1
    /\ \A k \in 1..Len(slots) :
          /\ Len(slots[k]) > 0
          /\ \A pl \in 1..Len(slots[k]) : \E n \in 1..Len(notes) : slots[k][pl] = notes[n]
          /\ \A a, b \in 1..Len(slots[k]) :
                a # b => ~Overlap(slots[k][a], slots[k][b])

\* C10's case: three Notes, some of them overlapping, all placed, and a slot
\* taken again after its Note ended
C10_Witness ==
    /\ Len(notes) = 3
    /\ queue = <<>>
    /\ Len(slots) = 2
    /\ \E k \in 1..2 : Len(slots[k]) = 2
    /\ \E a, b \in 1..3 : a # b /\ Overlap(notes[a], notes[b])


\* the Notes of ns sounding at instant t
Sounding(ns, t) == {k \in 1..Len(ns) : ns[k].start <= t /\ t < ns[k].end}

\* the maximum simultaneous polyphony of ns
Polyphony(ns) == Max({Cardinality(Sounding(ns, t)) : t \in 0..MaxTime} \cup {0})

\* C13: the partitioner never has more voices open than the maximum number of
\* input Notes sounding at one instant, and once every Note of a non-empty
\* list is placed it has exactly that many.
C13_VoiceCountIsPolyphony ==
    /\ Len(slots) <= Polyphony(notes)
    /\ (queue = <<>> /\ notes # <<>>) => Len(slots) = Polyphony(notes)

\* C13's case: three Notes of which at most two sound together, all placed,
\* the third of them in a slot that had become free
C13_Witness ==
    /\ Len(notes) = 3
    /\ queue = <<>>
    /\ Polyphony(notes) = 2
    /\ Len(slots) = 2
    /\ \E a, b \in 1..3 : a # b /\ notes[a].end = notes[b].start


----------------------------------------------------------------------------
(* The engine's Limiter & Synchronizer, as the design document describes it *)
(* (section 4.5), on voice contents as the MML Encoder emits them (section  *)
(* 4.4): a tempo directive, then for every Note a rest for the gap before   *)
(* it if there is one, an octave directive if the octave changes, and the   *)
(* note token.  The token grammar is left abstract there; a token is its    *)
(* kind, its number of characters and the time it takes.                    *)

Tempo == [kind |-> "tempo", len |-> 3, dur |-> 0]
Octave == [kind |-> "octave", len |-> 2, dur |-> 0]
RestToken == [kind |-> "rest", len |-> 2, dur |-> 2]
NoteToken == [kind |-> "note", len |-> 1, dur |-> 1]

\* what the encoder emits for one Note
Group(gap, octaveChange) ==
    (IF gap THEN <<RestToken>> ELSE <<>>)
       \o (IF octaveChange THEN <<Octave>> ELSE <<>>)
       \o <<NoteToken>>

GroupShapes == {Group(gap, oc) : gap \in BOOLEAN, oc \in BOOLEAN}

\* the token sequences of n Notes
RECURSIVE Bodies(_)
Bodies(n) ==
    IF n = 0 THEN {<<>>}
    ELSE {b \o g : b \in Bodies(n - 1), g \in GroupShapes}

\* the contents of the voices with 1..MaxGroups Notes (a voice without Notes
\* is dropped by the partitioner)
VoiceContents == {<<Tempo>> \o b : b \in UNION {Bodies(n) : n \in 1..MaxGroups}}

\* the voices of one file: one voice, or two
VoiceContentLists == {<<c>> : c \in VoiceContents} \cup (VoiceContents \X VoiceContents)

\* character count: the length of the content string
RECURSIVE Chars(_)
Chars(c) == IF c = <<>> THEN 0 ELSE Chars(SubSeq(c, 1, Len(c) - 1)) + c[Len(c)].len

\* duration: the end time of the last emitted event
RECURSIVE Duration(_)
Duration(c) == IF c = <<>> THEN 0 ELSE Duration(SubSeq(c, 1, Len(c) - 1)) + c[Len(c)].dur

\* A plausible slip: cutting at the token boundary and leaving what stands there.
StripNothing(c) == c

\* "never leaves a dangling octave/tempo directive with no following note"
RECURSIVE StripDangling(_)
StripDangling(c) ==
    IF c # <<>> /\ c[Len(c)].kind \in {"octave", "tempo"}
    THEN StripDangling(SubSeq(c, 1, Len(c) - 1))
    ELSE c

\* "if content length exceeds charLimit, truncates at the last complete token
\* boundary at or before the limit"
Truncate(c, limit) ==
    IF Chars(c) <= limit THEN c
    ELSE LET fits == {k \in 0..Len(c) : Chars(SubSeq(c, 1, k)) <= limit}
         IN StripDangling(SubSeq(c, 1, Max(fits)))

\* "further truncated (same token-boundary rule) until its duration is <=
\* target_duration"
TruncateToDuration(c, target) ==
    IF Duration(c) <= target THEN c
    ELSE LET fits == {k \in 0..Len(c) : Duration(SubSeq(c, 1, k)) <= target}
         IN StripDangling(SubSeq(c, 1, Max(fits)))

\* A plausible slip: synchronizing to the longest voice.
TargetDurationIsLongest(cs) == Max({Duration(cs[k]) : k \in 1..Len(cs)})

\* "target_duration = minimum duration across all (possibly already-truncated)
\* voices"
TargetDuration(cs) == Min({Duration(cs[k]) : k \in 1..Len(cs)})

LimitInit ==
    /\ isConverting = FALSE
    /\ result = None
    /\ fileName = <<>>
    /\ conversionMode = "normal"
    /\ charLimit = DefaultCharLimit
    /\ sortBy = "notes"
    /\ errorMessage = ""
    /\ copiedIndex = -1
    /\ localStorage = EmptyStorage
    /\ dialogOpen = FALSE
    /\ calls = NoCalls
    /\ clipboard = None
    /\ writes = <<>>
    /\ timers = 0
    /\ notes = <<>>
    /\ queue = <<>>
    /\ slots = <<>>
    /\ \E limit \in 0..MaxCharLimit, full \in VoiceContentLists :
          limiter = [stage |-> "limit", charLimit |-> limit, full |-> full,
                     cut |-> <<>>, voices |-> <<>>]

\* the next voice is cut to the character limit
LimitVoice ==
    /\ limiter.stage = "limit"
    /\ Len(limiter.cut) < Len(limiter.full)
    /\ limiter' = [limiter EXCEPT
                      !.cut = Append(@, Truncate(limiter.full[Len(@) + 1],
                                                 limiter.charLimit))]
    /\ UNCHANGED <<uiVars, partVars>>

\* every voice being cut, the voices are cut to the target duration
Synchronize ==
    /\ limiter.stage = "limit"
    /\ Len(limiter.cut) = Len(limiter.full)
    /\ limiter' = [limiter EXCEPT
                      !.stage = "done",
                      !.voices = [k \in 1..Len(limiter.cut) |->
                                    TruncateToDuration(limiter.cut[k],
                                                       TargetDuration(limiter.cut))]]
    /\ UNCHANGED <<uiVars, partVars>>

LimitNext == LimitVoice \/ Synchronize

LimitSpec == LimitInit /\ [][LimitNext]_vars

\* t is the first tokens of c
IsPrefix(t, c) == Len(t) <= Len(c) /\ SubSeq(c, 1, Len(t)) = t

\* C11: a voice cut to the character limit is no longer than the limit, is
\* the first tokens of the full content, does not end in an octave or tempo
\* directive, and is left as it is when cut again to the same or a larger limit.
C11_TruncationIsSafeAndIdempotent ==
    \A k \in 1..Len(limiter.cut) :
        LET c == limiter.full[k]
            t == limiter.cut[k]
        IN /\ Chars(t) <= limiter.charLimit
           /\ IsPrefix(t, c)
           /\ t # <<>> => t[Len(t)].kind \notin {"octave", "tempo"}
           /\ \A again \in limiter.charLimit..(MaxCharLimit + 1) :
                  Truncate(t, again) = t

\* C11's case: a voice was cut between an octave directive and its note, and
\* the directive, which the limit had room for, was taken off as well
C11_Witness ==
    \E k \in 1..Len(limiter.cut) :
        LET c == limiter.full[k]
            t == limiter.cut[k]
        IN /\ Len(t) >= 2
           /\ Len(t) < Len(c)
           /\ c[Len(t) + 1].kind = "octave"
           /\ Chars(t) + c[Len(t) + 1].len <= limiter.charLimit

\* C12: after the synchronizer every voice lasts at most as long as the
\* shortest voice did after the cut to the character limit, and one voice
\* lasts exactly that long.
C12_VoicesEndTogether ==
    (limiter.stage = "done" /\ Len(limiter.voices) > 0) =>
        LET shortest == Min({Duration(limiter.cut[k]) : k \in 1..Len(limiter.cut)})
        IN /\ \A k \in 1..Len(limiter.voices) : Duration(limiter.voices[k]) <= shortest
           /\ \E k \in 1..Len(limiter.voices) : Duration(limiter.voices[k]) = shortest

\* C12's case: of two voices, one was cut to the character limit, and the
\* other, longer after that cut, was then cut to the duration of the first
C12_Witness ==
    /\ limiter.stage = "done"
    /\ Len(limiter.voices) = 2
    /\ \E k, j \in 1..2 :
          /\ limiter.cut[k] # limiter.full[k]
          /\ Duration(limiter.cut[k]) > 0
          /\ Duration(limiter.cut[j]) > Duration(limiter.cut[k])
          /\ limiter.voices[j] # limiter.cut[j]
          /\ limiter.voices[k] = limiter.cut[k]

============================================================================
